---------------------------- MODULE Spec2Model ----------------------------
(***************************************************************************)
(* Model of flat_field_correction.py: the raw decoder (load_raw_image),    *)
(* the master-flat aggregation (create_master_flat) and the correction     *)
(* (apply_flat_field_correction).                                          *)
(*                                                                         *)
(* Numeric conventions.                                                    *)
(*  - An ndarray is a record [shape, data]: data is the C-order (row-major)*)
(*    element sequence, shape the tuple of dimensions, as in numpy.        *)
(*  - uint16 samples are integers 0..65535.                                *)
(*  - A floating point value is a pair <<n, d>> in lowest terms, d >= 0:   *)
(*    d > 0 is the number n/d, <<1,0>> is +inf, <<-1,0>> is -inf and       *)
(*    <<0,0>> is NaN.  Arithmetic is exact: the rounding of IEEE division  *)
(*    and multiplication is not modelled (signed zero neither).            *)
(*  - A raised exception is a record naming the exception class and the    *)
(*    numpy call that raised it.                                           *)
(***************************************************************************)
EXTENDS Integers, Sequences, FiniteSets, TLC

VARIABLES pc, fn, args, result

vars == <<pc, fn, args, result>>

---------------------------------------------------------------------------
(* Bounds of the model. *)

\* longest file (in bytes) handed to load_raw_image directly
MaxBytes == 8
\* largest number of pixels of an array handed to a function directly
MaxPixels == 4
\* largest number of calibration files handed to create_master_flat
MaxFrames == 4

\* The detector geometry, load_raw_image's default width and height
\* (2560 and 3072 in the source), scaled down to a 1 x 2 grid.
DefaultWidth == 2
DefaultHeight == 1

\* byte values the files are made of
ByteVals == {0, 1, 255}

---------------------------------------------------------------------------
(* Floating point values as exact fractions. *)

Abs(x) == IF x < 0 THEN -x ELSE x

Sign(x) == IF x < 0 THEN -1 ELSE IF x > 0 THEN 1 ELSE 0

RECURSIVE GCD(_, _)
GCD(a, b) == IF b = 0 THEN a ELSE GCD(b, a % b)

\* n/d in lowest terms with d >= 0; a zero denominator keeps only the sign
Norm(n, d) ==
    IF d = 0 THEN <<Sign(n), 0>>
    ELSE LET s == IF d < 0 THEN -1 ELSE 1
             g == GCD(Abs(n), Abs(d))
         IN  <<(s * n) \div g, (s * d) \div g>>

FromInt(k) == <<k, 1>>

FAdd(a, b) ==
    IF a[2] = 0 /\ b[2] = 0
    THEN (IF a[1] = b[1] THEN a ELSE <<0, 0>>)
    ELSE Norm(a[1] * b[2] + b[1] * a[2], a[2] * b[2])

FMul(a, b) == Norm(a[1] * b[1], a[2] * b[2])

\* x / 0 is +-inf, 0 / 0 and inf / inf are NaN: numpy warns and does not raise
FDiv(a, b) ==
    IF b[1] < 0 THEN Norm(-(a[1] * b[2]), -(a[2] * b[1]))
    ELSE Norm(a[1] * b[2], a[2] * b[1])

\* x > 0 (False for NaN)
FPositive(a) == a[1] > 0

IsFinite(a) == a[2] > 0

RECURSIVE Pow2(_)
Pow2(k) == IF k = 0 THEN 1 ELSE 2 * Pow2(k - 1)

\* the power of two u with 2^23 * u <= m < 2^24 * u, for m >= 2^24
RECURSIVE Ulp32(_, _)
Ulp32(m, u) == IF m < Pow2(24) * u THEN u ELSE Ulp32(m, 2 * u)

\* arr.astype(np.float32) of an integer: exact below 2^24, else rounded to a
\* 24 bit significand, ties to even
AsFloat32(k) ==
    IF Abs(k) < Pow2(24) THEN FromInt(k)
    ELSE LET m == Abs(k)
             u == Ulp32(m, 1)
             q == m \div u
             r == m % u
             up == (2 * r > u) \/ (2 * r = u /\ q % 2 = 1)
         IN  FromInt(Sign(k) * u * (IF up THEN q + 1 ELSE q))

---------------------------------------------------------------------------
(* Arrays and results. *)

NoArray == [shape |-> <<>>, data |-> <<>>]

Returned(a) == [exc |-> "none", site |-> "none", value |-> a]

Raised(e, s) == [exc |-> e, site |-> s, value |-> NoArray]

RECURSIVE Product(_)
Product(s) == IF s = <<>> THEN 1 ELSE Head(s) * Product(Tail(s))

\* a[r, c] of a 2-D array, 1-based
At(a, r, c) == a.data[(r - 1) * a.shape[2] + c]

---------------------------------------------------------------------------
(* load_raw_image *)

\* np.fromfile(filepath, dtype=np.uint16): as many whole 16-bit items as the
\* file holds, low byte first; a trailing odd byte is left unread
np_fromfile(buf) ==
    LET n == Len(buf) \div 2
    IN  [shape |-> <<n>>,
         data |-> [i \in 1..n |-> buf[2 * i - 1] + 256 * buf[2 * i]]]

\* data.reshape(newshape): the same elements in the same C order under a new
\* shape; ValueError when the sizes differ
np_reshape(a, newshape) ==
    IF Product(newshape) # Len(a.data)
    THEN Raised("ValueError", "reshape")
    ELSE Returned([shape |-> newshape, data |-> a.data])

\* mutant: the sequence reshaped to (width, height)
load_raw_image_swapped(buf, width, height) ==
    np_reshape(np_fromfile(buf), <<width, height>>)

load_raw_image(buf, width, height) ==
    LET data == np_fromfile(buf)
    IN  np_reshape(data, <<height, width>>)

---------------------------------------------------------------------------
(* create_master_flat *)

RECURSIVE Concat(_)
Concat(ss) == IF ss = <<>> THEN <<>> ELSE Head(ss) \o Concat(Tail(ss))

\* mutant: an empty list stacks to an empty array
np_stack_no_empty_check(arrays) ==
    IF arrays = <<>> THEN Returned([shape |-> <<0>>, data |-> <<>>])
    ELSE IF \E i \in 1..Len(arrays) : arrays[i].shape # arrays[1].shape
    THEN Raised("ValueError", "stack_shape")
    ELSE Returned([shape |-> <<Len(arrays)>> \o arrays[1].shape,
                   data |-> Concat([i \in 1..Len(arrays) |-> arrays[i].data])])

\* np.stack(arrays, axis=0): ValueError for an empty list and for arrays of
\* differing shapes; else the arrays one after another along a new first axis
np_stack(arrays) ==
    IF arrays = <<>> THEN Raised("ValueError", "stack_empty")
    ELSE IF \E i \in 1..Len(arrays) : arrays[i].shape # arrays[1].shape
    THEN Raised("ValueError", "stack_shape")
    ELSE Returned([shape |-> <<Len(arrays)>> \o arrays[1].shape,
                   data |-> Concat([i \in 1..Len(arrays) |-> arrays[i].data])])

\* x put into the ascending sequence s, before the first element above it
RECURSIVE Insert(_, _)
Insert(x, s) ==
    IF s = <<>> THEN <<x>>
    ELSE IF x <= Head(s) THEN <<x>> \o s
    ELSE <<Head(s)>> \o Insert(x, Tail(s))

RECURSIVE Sort(_)
Sort(s) == IF s = <<>> THEN <<>> ELSE Insert(Head(s), Sort(Tail(s)))

RECURSIVE FSum(_)
FSum(s) == IF s = <<>> THEN FromInt(0) ELSE FAdd(Head(s), FSum(Tail(s)))

\* np.mean of float values: the sum over the element count (NaN when empty)
MeanOf(s) == FDiv(FSum(s), FromInt(Len(s)))

\* mutant: the lower middle value, the two middle ones never averaged
MedianOf_lower_middle(xs) ==
    IF xs = <<>> THEN <<0, 0>> ELSE FromInt(Sort(xs)[(Len(xs) + 1) \div 2])

\* mutant: the middle of the values in the order given
MedianOf_unsorted(xs) ==
    LET sz == Len(xs)
        index == sz \div 2
        mid == IF sz = 0 THEN <<>>
               ELSE IF sz % 2 = 1 THEN SubSeq(xs, index + 1, index + 1)
               ELSE SubSeq(xs, index, index + 1)
    IN  MeanOf([i \in 1..Len(mid) |-> FromInt(mid[i])])

\* np.median of integer values xs: the values are ordered, and the middle one
\* (odd count) or the two middle ones (even count) are averaged as float64;
\* NaN for no values
MedianOf(xs) ==
    LET sz == Len(xs)
        part == Sort(xs)
        index == sz \div 2
        mid == IF sz = 0 THEN <<>>
               ELSE IF sz % 2 = 1 THEN SubSeq(part, index + 1, index + 1)
               ELSE SubSeq(part, index, index + 1)
    IN  MeanOf([i \in 1..Len(mid) |-> FromInt(mid[i])])

\* np.median(flat_stack, axis=0): the median along the first axis, taken
\* separately at each position of the remaining axes
np_median_axis0(a) ==
    LET n == a.shape[1]
        rest == Tail(a.shape)
        P == Product(rest)
    IN  [shape |-> rest,
         data |-> [j \in 1..P |->
                     MedianOf([i \in 1..n |-> a.data[(i - 1) * P + j]])]]

\* mutant: a file that fails to load is skipped
RECURSIVE LoadAll_skip_failed(_, _)
LoadAll_skip_failed(files, flat_fields) ==
    IF files = <<>> THEN [err |-> Returned(NoArray), imgs |-> flat_fields]
    ELSE LET img == load_raw_image(Head(files), DefaultWidth, DefaultHeight)
         IN  IF img.exc # "none" THEN LoadAll_skip_failed(Tail(files), flat_fields)
             ELSE LoadAll_skip_failed(Tail(files), Append(flat_fields, img.value))

\* the loading loop: the images loaded so far, or the exception of the first
\* file that fails to load
RECURSIVE LoadAll(_, _)
LoadAll(files, flat_fields) ==
    IF files = <<>> THEN [err |-> Returned(NoArray), imgs |-> flat_fields]
    ELSE LET img == load_raw_image(Head(files), DefaultWidth, DefaultHeight)
         IN  IF img.exc # "none" THEN [err |-> img, imgs |-> flat_fields]
             ELSE LoadAll(Tail(files), Append(flat_fields, img.value))

create_master_flat(flat_field_files) ==
    LET loaded == LoadAll(flat_field_files, <<>>)
    IN  IF loaded.err.exc # "none" THEN loaded.err
        ELSE LET flat_stack == np_stack(loaded.imgs)
             IN  IF flat_stack.exc # "none" THEN flat_stack
                 ELSE Returned(np_median_axis0(flat_stack.value))

---------------------------------------------------------------------------
(* apply_flat_field_correction *)

\* numpy broadcasting of two 2-D shapes: per axis the sizes are equal or one
\* of them is 1; <<>> when the shapes cannot be broadcast together
BroadcastShape(s, t) ==
    IF \A k \in 1..2 : s[k] = t[k] \/ s[k] = 1 \/ t[k] = 1
    THEN [k \in 1..2 |-> IF s[k] = 1 THEN t[k] ELSE s[k]]
    ELSE <<>>

\* the element of a that position (r, c) of the broadcast result reads
BAt(a, r, c) ==
    At(a, IF a.shape[1] = 1 THEN 1 ELSE r, IF a.shape[2] = 1 THEN 1 ELSE c)

\* a / b of two 2-D arrays, elementwise with broadcasting
np_divide(a, b) ==
    LET s == BroadcastShape(a.shape, b.shape)
    IN  IF s = <<>> THEN Raised("ValueError", "broadcast")
        ELSE Returned([shape |-> s,
                       data |-> [k \in 1..(s[1] * s[2]) |->
                                   LET r == ((k - 1) \div s[2]) + 1
                                       c == ((k - 1) % s[2]) + 1
                                   IN  FDiv(BAt(a, r, c), BAt(b, r, c))]])

\* mutant: the flat divides as it is
master_flat_unguarded(master_flat) == master_flat

\* np.where(master_flat > 0, master_flat, 1)
master_flat_safe(master_flat) ==
    [shape |-> master_flat.shape,
     data |-> [k \in 1..Len(master_flat.data) |->
                 IF FPositive(master_flat.data[k]) THEN master_flat.data[k]
                 ELSE FromInt(1)]]

\* mutant: the mean of the zero-guarded flat
mean_flat_of_safe(master_flat) == MeanOf(master_flat_safe(master_flat).data)

\* mutant: the mean of the positive pixels only
mean_flat_positive_only(master_flat) ==
    MeanOf(SelectSeq(master_flat.data, FPositive))

\* np.mean(master_flat)
mean_flat(master_flat) == MeanOf(master_flat.data)

\* raw_image.astype(np.float32)
astype_float32(raw_image) ==
    [shape |-> raw_image.shape,
     data |-> [k \in 1..Len(raw_image.data) |-> AsFloat32(raw_image.data[k])]]

apply_flat_field_correction(raw_image, master_flat) ==
    LET safe == master_flat_safe(master_flat)
        m == mean_flat(master_flat)
        quotient == np_divide(astype_float32(raw_image), safe)
    IN  IF quotient.exc # "none" THEN quotient
        ELSE Returned([shape |-> quotient.value.shape,
                       data |-> [k \in 1..Len(quotient.value.data) |->
                                   FMul(quotient.value.data[k], m)]])

---------------------------------------------------------------------------
(* The calls. *)

RECURSIVE SeqsUpTo(_, _)
SeqsUpTo(S, n) ==
    IF n = 0 THEN {<<>>}
    ELSE LET P == SeqsUpTo(S, n - 1)
         IN  P \cup {Append(s, x) : s \in {t \in P : Len(t) = n - 1}, x \in S}

Shapes == {s \in (1..MaxPixels) \X (1..MaxPixels) : s[1] * s[2] <= MaxPixels}

\* all arrays of shape s with elements from V
ArraysOf(s, V) == {[shape |-> s, data |-> d] : d \in [1..(s[1] * s[2]) -> V]}

\* the file holding the samples of d, low byte first
FileOf(d) ==
    [i \in 1..(2 * Len(d)) |->
        IF i % 2 = 1 THEN d[(i + 1) \div 2] % 256 ELSE d[i \div 2] \div 256]

\* calibration exposures of the detector geometry
CalGrids == {<<10, 65535>>, <<20, 0>>, <<30, 65535>>, <<40, 0>>}

\* a truncated file, a file with a trailing odd byte and an oversized file
OddFiles == {<<10, 0>>, <<10, 0, 20, 0, 7>>, <<10, 0, 20, 0, 30, 0>>}

CalFiles == {FileOf(g) : g \in CalGrids} \cup OddFiles

\* raw exposures are uint16 samples
RawVals == {3, 65535}

\* master flat values: negative, zero, positive
FlatVals == {<<-1, 2>>, <<0, 1>>, <<3, 1>>}

Init ==
    /\ pc = "idle"
    /\ fn = "none"
    /\ args = <<>>
    /\ result = Returned(NoArray)

CallLoadRawImage ==
    /\ pc = "idle"
    /\ \E buf \in SeqsUpTo(ByteVals, MaxBytes), s \in Shapes :
          /\ args' = <<buf, s[2], s[1]>>
          /\ result' = load_raw_image(buf, s[2], s[1])
    /\ fn' = "load_raw_image"
    /\ pc' = "returned"

CallCreateMasterFlat ==
    /\ pc = "idle"
    /\ \E files \in SeqsUpTo(CalFiles, MaxFrames) :
          /\ args' = <<files>>
          /\ result' = create_master_flat(files)
    /\ fn' = "create_master_flat"
    /\ pc' = "returned"

CallApplyFlatFieldCorrection ==
    /\ pc = "idle"
    /\ \E s \in Shapes, t \in Shapes :
          \E raw \in ArraysOf(s, RawVals), flat \in ArraysOf(t, FlatVals) :
             /\ args' = <<raw, flat>>
             /\ result' = apply_flat_field_correction(raw, flat)
    /\ fn' = "apply_flat_field_correction"
    /\ pc' = "returned"

Next ==
    \/ CallLoadRawImage
    \/ CallCreateMasterFlat
    \/ CallApplyFlatFieldCorrection

Spec == Init /\ [][Next]_vars

---------------------------------------------------------------------------
(* Vocabulary of the properties. *)

Called(f) == pc = "returned" /\ fn = f

\* The error classes of the design.  The source raises numpy's ValueError in
\* each case; the raising call tells the classes apart.
ShapeMismatch(res) ==
    res.exc = "ValueError" /\ res.site \in {"reshape", "stack_shape", "broadcast"}

InsufficientInput(res) == res.exc = "ValueError" /\ res.site = "stack_empty"

Succeeded(res) == res.exc = "none"

\* sample k (row-major) of a file, low byte first
SampleOf(buf, k) == buf[2 * k - 1] + 256 * buf[2 * k]

\* a sum of fractions over the common denominator D
RECURSIVE LCMDen(_)
LCMDen(s) ==
    IF s = <<>> THEN 1
    ELSE LET l == LCMDen(Tail(s))
         IN  (Head(s)[2] * l) \div GCD(Head(s)[2], l)

RECURSIVE SumOver(_, _)
SumOver(s, D) ==
    IF s = <<>> THEN 0 ELSE Head(s)[1] * (D \div Head(s)[2]) + SumOver(Tail(s), D)

\* the divisor the design prescribes for a flat value: 1 for a value <= 0
SafeDivisor(f) == IF f[1] * f[2] <= 0 THEN <<1, 1>> ELSE f

\* v is the k-th smallest of the values xs
IsOrderStat(xs, k, v) ==
    /\ \E i \in 1..Len(xs) : xs[i] = v
    /\ Cardinality({i \in 1..Len(xs) : xs[i] < v}) <= k - 1
    /\ Cardinality({i \in 1..Len(xs) : xs[i] <= v}) >= k

\* m (a fraction) is the statistical median of the integer values xs
IsMedian(xs, m) ==
    LET N == Len(xs)
    IN  IF N % 2 = 1
        THEN m[2] = 1 /\ IsOrderStat(xs, (N + 1) \div 2, m[1])
        ELSE \E i \in 1..N, j \in 1..N :
                /\ IsOrderStat(xs, N \div 2, xs[i])
                /\ IsOrderStat(xs, N \div 2 + 1, xs[j])
                /\ m[2] > 0
                /\ 2 * m[1] = (xs[i] + xs[j]) * m[2]

\* s and t hold the same values, each as often
SameBag(s, t) ==
    /\ Len(s) = Len(t)
    /\ \A i \in 1..Len(s) :
          Cardinality({k \in 1..Len(s) : s[k] = s[i]})
            = Cardinality({k \in 1..Len(t) : t[k] = s[i]})

\* the values the calibration files hold at position j
Column(files, j) == [i \in 1..Len(files) |-> SampleOf(files[i], j)]

AllDecodable(files) ==
    \A i \in 1..Len(files) : Len(files[i]) \div 2 = DefaultWidth * DefaultHeight

GridPixels == DefaultWidth * DefaultHeight

---------------------------------------------------------------------------
(* C1: on a raw grid and a master flat of the same shape the correction    *)
(* returns, at every position, (raw / safe_flat) * mean(flat): safe_flat   *)
(* is the flat with 1 in place of each value <= 0, mean(flat) the mean of  *)
(* all pixels of the original flat; the value is neither clamped nor       *)
(* rounded.                                                                *)
C1_CorrectionFormula ==
    (Called("apply_flat_field_correction") /\ args[1].shape = args[2].shape) =>
        LET raw == args[1]
            flat == args[2]
            N == Len(flat.data)
            D == LCMDen(flat.data)
            S == SumOver(flat.data, D)
        IN  /\ Succeeded(result)
            /\ result.value.shape = raw.shape
            /\ \A k \in 1..N :
                  LET v == result.value.data[k]
                      sf == SafeDivisor(flat.data[k])
                  IN  /\ v[2] > 0
                      /\ v[1] * sf[1] * D * N = v[2] * raw.data[k] * sf[2] * S

C1_Witness ==
    /\ Called("apply_flat_field_correction")
    /\ args[1].shape = args[2].shape
    /\ \E k \in 1..Len(args[2].data) : args[2].data[k][1] <= 0
    /\ Succeeded(result)
    /\ \E k \in 1..Len(result.value.data) :
          /\ result.value.data[k][1] > 65535 * result.value.data[k][2]
          /\ result.value.data[k][2] > 1

(* C2: every flat pixel <= 0 divides as exactly 1 and every flat pixel > 0 *)
(* as itself, so the divisor is positive everywhere: the correction does   *)
(* not raise and yields no inf or NaN.                                     *)
C2_ZeroGuard ==
    (Called("apply_flat_field_correction") /\ args[1].shape = args[2].shape) =>
        LET flat == args[2]
            safe == master_flat_safe(flat)
        IN  /\ safe.shape = flat.shape
            /\ \A k \in 1..Len(flat.data) :
                  /\ safe.data[k] = SafeDivisor(flat.data[k])
                  /\ safe.data[k][1] > 0 /\ safe.data[k][2] > 0
            /\ Succeeded(result)
            /\ Len(result.value.data) = Len(flat.data)
            /\ \A k \in 1..Len(result.value.data) : IsFinite(result.value.data[k])

C2_Witness ==
    /\ Called("apply_flat_field_correction")
    /\ args[1].shape = args[2].shape
    /\ \E k \in 1..Len(args[2].data) : args[2].data[k] = <<0, 1>>
    /\ \E k \in 1..Len(args[2].data) : args[2].data[k][1] < 0
    /\ Succeeded(result)
    /\ \A k \in 1..Len(result.value.data) : IsFinite(result.value.data[k])

(* C3: for N >= 1 calibration grids of the detector shape the master flat  *)
(* has that shape and holds, at each position separately, the median of    *)
(* the N values there: the middle order statistic for odd N, the average   *)
(* of the two middle ones for even N; 10,20,30 gives 20 and 10,20,30,40    *)
(* gives 25.                                                               *)
C3_PerPixelMedian ==
    (Called("create_master_flat") /\ args[1] # <<>> /\ AllDecodable(args[1])) =>
        /\ Succeeded(result)
        /\ result.value.shape = <<DefaultHeight, DefaultWidth>>
        /\ Len(result.value.data) = GridPixels
        /\ \A j \in 1..GridPixels :
              LET xs == Column(args[1], j)
                  m == result.value.data[j]
              IN  /\ IsMedian(xs, m)
                  /\ SameBag(xs, <<10, 20, 30>>) => m = <<20, 1>>
                  /\ SameBag(xs, <<10, 20, 30, 40>>) => m = <<25, 1>>

C3_Witness ==
    /\ Called("create_master_flat")
    /\ AllDecodable(args[1])
    /\ Column(args[1], 1) = <<40, 10, 30, 20>>
    /\ Succeeded(result)
    /\ result.value.data[1] = <<25, 1>>
    /\ result.value.data[2] = <<65535, 2>>

(* C4: the master flat of a calibration set is the same for every order in *)
(* which the set's frames are supplied.                                    *)
C4_OrderInvariant ==
    (Called("create_master_flat") /\ Succeeded(result)) =>
        \A perm \in Permutations(1..Len(args[1])) :
            create_master_flat([i \in 1..Len(args[1]) |-> args[1][perm[i]]]) = result

C4_Witness ==
    /\ Called("create_master_flat")
    /\ Succeeded(result)
    /\ Len(args[1]) = 3
    /\ Column(args[1], 1) = <<30, 10, 20>>
    /\ result.value.data[1] = <<20, 1>>

(* C5: decoding the row-major little-endian encoding of an h x w grid      *)
(* gives the grid back: h rows of w samples, row 0 first, the sample at    *)
(* (r, c) being element r*w + c of the encoded sequence.                   *)
C5_DecodeRoundTrip ==
    (Called("load_raw_image") /\ Len(args[1]) = 2 * args[2] * args[3]) =>
        LET buf == args[1]
            w == args[2]
            h == args[3]
        IN  /\ Succeeded(result)
            /\ result.value.shape = <<h, w>>
            /\ \A r \in 1..h, c \in 1..w :
                  At(result.value, r, c) = SampleOf(buf, (r - 1) * w + c)
            /\ FileOf(result.value.data) = buf

C5_Witness ==
    /\ Called("load_raw_image")
    /\ args[2] = 2 /\ args[3] = 2
    /\ Len(args[1]) = 8
    /\ Succeeded(result)
    /\ At(result.value, 1, 2) = 65281
    /\ At(result.value, 2, 1) = 511

(* C6: decoding a buffer whose byte length is not width*height*2 fails     *)
(* with ShapeMismatch and yields no grid.                                  *)
C6_WrongLengthFails ==
    (Called("load_raw_image") /\ Len(args[1]) # 2 * args[2] * args[3]) =>
        ShapeMismatch(result) /\ result.value = NoArray

(* C7: the correction fails with ShapeMismatch whenever raw and flat       *)
(* differ in shape, and a corrected grid has the dimensions of both.       *)
C7_ShapeEnforced ==
    Called("apply_flat_field_correction") =>
        /\ args[1].shape # args[2].shape =>
              ShapeMismatch(result) /\ result.value = NoArray
        /\ Succeeded(result) =>
              /\ result.value.shape = args[1].shape
              /\ result.value.shape = args[2].shape

(* C8: the aggregation of an empty calibration sequence fails with         *)
(* InsufficientInput and yields no master flat.                            *)
C8_EmptyFails ==
    (Called("create_master_flat") /\ args[1] = <<>>) =>
        InsufficientInput(result) /\ result.value = NoArray

C8_Witness ==
    /\ Called("create_master_flat")
    /\ args[1] = <<>>
    /\ ~Succeeded(result)

(* C9: the aggregation fails with ShapeMismatch, and yields no master flat *)
(* at all, as soon as one calibration input does not decode to the         *)
(* detector shape.                                                         *)
C9_BadFrameFatal ==
    (Called("create_master_flat") /\ ~AllDecodable(args[1])) =>
        ShapeMismatch(result) /\ result.value = NoArray

C9_Witness ==
    /\ Called("create_master_flat")
    /\ Len(args[1]) = 3
    /\ AllDecodable(SubSeq(args[1], 1, 2))
    /\ ~AllDecodable(args[1])
    /\ ShapeMismatch(result)

(* C10: where the raw value equals a positive flat value, the corrected    *)
(* value is mean(flat), the mean of all pixels of the original flat.       *)
C10_MeanRenormalization ==
    (Called("apply_flat_field_correction") /\ args[1].shape = args[2].shape) =>
        LET raw == args[1]
            flat == args[2]
            N == Len(flat.data)
            D == LCMDen(flat.data)
            S == SumOver(flat.data, D)
        IN  /\ Succeeded(result)
            /\ \A k \in 1..N :
                  (flat.data[k][1] > 0 /\ flat.data[k] = <<raw.data[k], 1>>) =>
                      LET v == result.value.data[k]
                      IN  v[2] > 0 /\ v[1] * D * N = v[2] * S

C10_Witness ==
    /\ Called("apply_flat_field_correction")
    /\ args[1].shape = args[2].shape
    /\ Len(args[2].data) = 4
    /\ \A k \in 1..4 : args[2].data[k][1] > 0 => args[2].data[k] = <<args[1].data[k], 1>>
    /\ \E k \in 1..4 : args[2].data[k][1] > 0
    /\ \E k \in 1..4 : args[2].data[k][1] < 0
    /\ Succeeded(result)
    /\ \E k \in 1..4 : args[2].data[k][1] > 0 /\ result.value.data[k] # args[2].data[k]

===========================================================================
